---- MODULE Spec2Model ----
(***************************************************************************)
(* Room state store of the Chatter demo (ChatProvider) and the storage it  *)
(* mirrors its room collection to.                                         *)
(*                                                                         *)
(* The repository holds three revisions of the provider:                   *)
(*   "ctx"  src/src/contexts/ChatContext.tsx  (save effect only)           *)
(*   "p6"   src/unnamed/part_006              (save effect + direct write) *)
(*   "app"  src/src/App.tsx lines 77-521      (direct read/write only)     *)
(* The variable rev fixes, for a whole behaviour, which one every tab      *)
(* runs.  Each tab (browser tab) has its own provider state; all tabs      *)
(* share the localStorage item 'savedRooms'.                               *)
(*                                                                         *)
(* Strings are sequences of one-character strings, so that trim,           *)
(* toUpperCase, toLowerCase, charAt and substring are computed.            *)
(***************************************************************************)
EXTENDS Integers, Sequences, FiniteSets, TLC

VARIABLES rev, storage, tabs, nextId, now, last, quotaExceeded

vars == <<rev, storage, tabs, nextId, now, last, quotaExceeded>>

\* ------------------------------------------------------------------ bounds
\* number of Date.now() ticks (state-changing handler calls) explored
MaxNow == 5

\* longest participants list handed to getDisplayChar
MaxParticipants == 3

\* most base-36 digits of a fraction handed to generateRoomCode
MaxDigits == 7

\* longest array of rooms handed to saveRoomsToStorage
MaxRooms == 2

\* ----------------------------------------------------------------- strings
LowerToUpper ==
  [c \in {"a","b","c","d","e","f","g","h","i","j","k","l","m","n","o","p",
          "q","r","s","t","u","v","w","x","y","z"} |->
     CASE c = "a" -> "A" [] c = "b" -> "B" [] c = "c" -> "C" [] c = "d" -> "D"
       [] c = "e" -> "E" [] c = "f" -> "F" [] c = "g" -> "G" [] c = "h" -> "H"
       [] c = "i" -> "I" [] c = "j" -> "J" [] c = "k" -> "K" [] c = "l" -> "L"
       [] c = "m" -> "M" [] c = "n" -> "N" [] c = "o" -> "O" [] c = "p" -> "P"
       [] c = "q" -> "Q" [] c = "r" -> "R" [] c = "s" -> "S" [] c = "t" -> "T"
       [] c = "u" -> "U" [] c = "v" -> "V" [] c = "w" -> "W" [] c = "x" -> "X"
       [] c = "y" -> "Y" [] c = "z" -> "Z"]

\* String.prototype.toUpperCase on one character; the German sharp s is the
\* character whose upper case is two characters long
UpperChar(c) ==
  IF c \in DOMAIN LowerToUpper THEN <<LowerToUpper[c]>>
  ELSE IF c = "ß" THEN <<"S", "S">>
  ELSE <<c>>

\* String.prototype.toLowerCase on one character
LowerChar(c) ==
  IF \E l \in DOMAIN LowerToUpper : LowerToUpper[l] = c
  THEN <<CHOOSE l \in DOMAIN LowerToUpper : LowerToUpper[l] = c>>
  ELSE <<c>>

RECURSIVE toUpperCase(_)
toUpperCase(s) ==
  IF s = <<>> THEN <<>> ELSE UpperChar(Head(s)) \o toUpperCase(Tail(s))

RECURSIVE toLowerCase(_)
toLowerCase(s) ==
  IF s = <<>> THEN <<>> ELSE LowerChar(Head(s)) \o toLowerCase(Tail(s))

IsSpace(c) == c = " "

RECURSIVE TrimStart(_)
TrimStart(s) ==
  IF s = <<>> THEN <<>>
  ELSE IF IsSpace(Head(s)) THEN TrimStart(Tail(s)) ELSE s

RECURSIVE TrimEnd(_)
TrimEnd(s) ==
  IF s = <<>> THEN <<>>
  ELSE IF IsSpace(s[Len(s)]) THEN TrimEnd(SubSeq(s, 1, Len(s) - 1)) ELSE s

\* String.prototype.trim
trim(s) == TrimEnd(TrimStart(s))

\* String.prototype.charAt: the empty string when the index is out of range
charAt(s, i) == IF i + 1 <= Len(s) THEN <<s[i + 1]>> ELSE <<>>

\* String.prototype.substring(from, to) for 0 <= from <= to
substring(s, from, to) ==
  LET hi == IF to < Len(s) THEN to ELSE Len(s)
  IN  IF from >= hi THEN <<>> ELSE SubSeq(s, from + 1, hi)

DigitChar(d) ==
  CASE d = 0 -> "0" [] d = 1 -> "1" [] d = 2 -> "2" [] d = 3 -> "3"
    [] d = 4 -> "4" [] d = 5 -> "5" [] d = 6 -> "6" [] d = 7 -> "7"
    [] d = 8 -> "8" [] d = 9 -> "9"

\* decimal rendering of a natural number, as a template literal does
RECURSIVE NumberToString(_)
NumberToString(n) ==
  IF n < 10 THEN <<DigitChar(n)>>
  ELSE NumberToString(n \div 10) \o <<DigitChar(n % 10)>>

\* ------------------------------------------------------------ null, arrays
\* null / undefined of a reference-valued variable
Null == [null |-> TRUE]

\* Array.prototype.find: first element satisfying the test, else undefined
ArrayFind(arr, Test(_)) ==
  IF \E i \in DOMAIN arr : Test(arr[i])
  THEN arr[CHOOSE i \in DOMAIN arr :
             Test(arr[i]) /\ \A j \in 1..(i - 1) : ~Test(arr[j])]
  ELSE Null

\* Array.prototype.map with the replace-by-id callback used by every handler
ReplaceById(arr, room) ==
  [i \in DOMAIN arr |-> IF arr[i].id = room.id THEN room ELSE arr[i]]

\* Array.prototype.some with the same-id callback
SomeHasId(arr, id) == \E i \in DOMAIN arr : arr[i].id = id

\* mutant: the test reads a field no room has, so no room counts as ended
HasEnded_never(room) == "ended" \in DOMAIN room

\* !room.endedAt is false: the optional field is present and not 0
HasEnded(room) == "endedAt" \in DOMAIN room /\ room.endedAt # 0

\* --------------------------------------------------------------- entities
\* senderId 'system'; the ids nanoid() returns are modelled as 1, 2, 3, ...
system == 0

\* mutant: the host labelled like a participant, from the first letter
NewHost_lettered(hostId, hostName) ==
  [id |-> hostId, name |-> hostName,
   displayChar |-> toUpperCase(charAt(hostName, 0)), role |-> "host"]

\* the host User built by createRoom
NewHost(hostId, hostName) ==
  [id |-> hostId, name |-> hostName, displayChar |-> <<"H">>, role |-> "host"]

\* a system Message (create / join / leave / close)
SystemMessage(id, content, ts) ==
  [id |-> id, senderId |-> system, senderDisplayChar |-> <<"S">>,
   content |-> content, timestamp |-> ts, isSystem |-> TRUE]

\* content of the message createRoom puts into the new room
CreatedContent(name, roomCode) ==
  <<"Room \"">> \o name \o <<"\" created. Share code: ">> \o roomCode

JoinedContent(displayChar) == displayChar \o <<" joined the room">>

\* mutant: the leaver is not named
LeftContent_plain(displayChar) == <<"Someone left the room">>

LeftContent(displayChar) == displayChar \o <<" left the room">>

ClosedContent == <<"The room has been closed by the host.">>

\* mutant: the room is built without its host among the participants
NewRoom_hostless(roomId, name, host, roomCode, msgId, ts) ==
  [id |-> roomId, name |-> name, createdAt |-> ts, hostId |-> host.id,
   participants |-> <<>>,
   messages |-> <<SystemMessage(msgId, CreatedContent(name, roomCode), ts)>>,
   code |-> roomCode]

\* the ChatRoom built by createRoom: no endedAt field
NewRoom(roomId, name, host, roomCode, msgId, ts) ==
  [id |-> roomId, name |-> name, createdAt |-> ts, hostId |-> host.id,
   participants |-> <<host>>,
   messages |-> <<SystemMessage(msgId, CreatedContent(name, roomCode), ts)>>,
   code |-> roomCode]

\* Math.random().toString(36).substring(2, 8).toUpperCase(); frac is the
\* sequence of base-36 digits toString(36) prints after "0." (none for 0)
generateRoomCode(frac) ==
  LET text == IF frac = <<>> THEN <<"0">> ELSE <<"0", ".">> \o frac
  IN  toUpperCase(substring(text, 2, 8))

\* getDisplayChar(name, participants)
getDisplayChar(name, participants) ==
  IF Len(name) = 0 THEN <<"A">>
  ELSE LET firstLetter == toUpperCase(charAt(name, 0))
           sameLetterCount ==
             Cardinality({i \in DOMAIN participants :
                            charAt(participants[i].displayChar, 0) = firstLetter})
       IN  IF sameLetterCount > 0
           THEN firstLetter \o NumberToString(sameLetterCount + 1)
           ELSE firstLetter

\* ---------------------------------------------------------------- storage
\* localStorage.getItem('savedRooms'): null when the key is absent, else a
\* text that is a JSON array of rooms, some other JSON value, or no JSON
NoItem == [kind |-> "null"]

\* The text of a JSON array of rooms is [kind |-> "array", items |-> ...],
\* items holding, per room, the text of each property that JSON.stringify
\* writes: a number as its decimal digits, a string between double quotes,
\* true as the word true, an array element by element; a property the
\* object does not have (endedAt, isSystem) is not written.
JSONnumber(n) == NumberToString(n)

DigitValue(c) == CHOOSE d \in 0..9 : DigitChar(d) = c

RECURSIVE ParseNumber(_)
ParseNumber(text) ==
  IF Len(text) = 0 THEN 0
  ELSE 10 * ParseNumber(SubSeq(text, 1, Len(text) - 1)) + DigitValue(text[Len(text)])

JSONstring(s) == <<"\"">> \o s \o <<"\"">>

ParseString(text) == SubSeq(text, 2, Len(text) - 1)

\* an id is a string (nanoid, or 'system'); the model numbers them
JSONid(id) == JSONstring(NumberToString(id))

ParseId(text) == ParseNumber(ParseString(text))

\* role, one of the two words
JSONword(w) == <<"\"", w, "\"">>

ParseWord(text) == text[2]

JSONboolean(b) == IF b THEN <<"true">> ELSE <<"false">>

ParseBoolean(text) == text = <<"true">>

StringifyUser(u) ==
  [id |-> JSONid(u.id), name |-> JSONstring(u.name),
   displayChar |-> JSONstring(u.displayChar), role |-> JSONword(u.role)]

ParseUser(x) ==
  [id |-> ParseId(x.id), name |-> ParseString(x.name),
   displayChar |-> ParseString(x.displayChar), role |-> ParseWord(x.role)]

StringifyMessage(m) ==
  LET plain == [id |-> JSONid(m.id), senderId |-> JSONid(m.senderId),
                senderDisplayChar |-> JSONstring(m.senderDisplayChar),
                content |-> JSONstring(m.content),
                timestamp |-> JSONnumber(m.timestamp)]
  IN  IF "isSystem" \in DOMAIN m
      THEN [f \in DOMAIN plain \cup {"isSystem"} |->
              IF f = "isSystem" THEN JSONboolean(m.isSystem) ELSE plain[f]]
      ELSE plain

ParseMessage(x) ==
  LET plain == [id |-> ParseId(x.id), senderId |-> ParseId(x.senderId),
                senderDisplayChar |-> ParseString(x.senderDisplayChar),
                content |-> ParseString(x.content),
                timestamp |-> ParseNumber(x.timestamp)]
  IN  IF "isSystem" \in DOMAIN x
      THEN [f \in DOMAIN plain \cup {"isSystem"} |->
              IF f = "isSystem" THEN ParseBoolean(x.isSystem) ELSE plain[f]]
      ELSE plain

\* mutant: endedAt is not written
StringifyRoom_noEndedAt(room) ==
  [id |-> JSONid(room.id), name |-> JSONstring(room.name),
   createdAt |-> JSONnumber(room.createdAt), hostId |-> JSONid(room.hostId),
   participants |-> [i \in DOMAIN room.participants |->
                       StringifyUser(room.participants[i])],
   messages |-> [i \in DOMAIN room.messages |->
                   StringifyMessage(room.messages[i])],
   code |-> JSONstring(room.code)]

StringifyRoom(room) ==
  LET plain == [id |-> JSONid(room.id), name |-> JSONstring(room.name),
                createdAt |-> JSONnumber(room.createdAt),
                hostId |-> JSONid(room.hostId),
                participants |-> [i \in DOMAIN room.participants |->
                                    StringifyUser(room.participants[i])],
                messages |-> [i \in DOMAIN room.messages |->
                                StringifyMessage(room.messages[i])],
                code |-> JSONstring(room.code)]
  IN  IF "endedAt" \in DOMAIN room
      THEN [f \in DOMAIN plain \cup {"endedAt"} |->
              IF f = "endedAt" THEN JSONnumber(room.endedAt) ELSE plain[f]]
      ELSE plain

ParseRoom(x) ==
  LET plain == [id |-> ParseId(x.id), name |-> ParseString(x.name),
                createdAt |-> ParseNumber(x.createdAt),
                hostId |-> ParseId(x.hostId),
                participants |-> [i \in DOMAIN x.participants |->
                                    ParseUser(x.participants[i])],
                messages |-> [i \in DOMAIN x.messages |->
                                ParseMessage(x.messages[i])],
                code |-> ParseString(x.code)]
  IN  IF "endedAt" \in DOMAIN x
      THEN [f \in DOMAIN plain \cup {"endedAt"} |->
              IF f = "endedAt" THEN ParseNumber(x.endedAt) ELSE plain[f]]
      ELSE plain

\* mutant: only the first room of the array is written
JSONstringify_truncated(rooms) ==
  [kind |-> "array",
   items |-> [i \in {j \in DOMAIN rooms : j = 1} |-> StringifyRoom(rooms[i])]]

\* JSON.stringify of an array of rooms
JSONstringify(rooms) ==
  [kind |-> "array", items |-> [i \in DOMAIN rooms |-> StringifyRoom(rooms[i])]]

\* JSON.parse of the text of an array of rooms
JSONparse(text) == [i \in DOMAIN text.items |-> ParseRoom(text.items[i])]

\* localStorage.setItem('savedRooms', text): the item becomes the text, or,
\* once the origin's quota is used up, the call throws and the item stays
setItem(st, text) == IF quotaExceeded THEN st ELSE text

\* getRoomsFromStorage (app): the rooms read and the storage afterwards
getRoomsFromStorage(st) ==
  CASE st.kind = "null"    -> [rooms |-> <<>>, storage |-> st]
    [] st.kind = "array"   -> [rooms |-> JSONparse(st), storage |-> st]
    [] st.kind = "object"  -> [rooms |-> <<>>, storage |-> st]
    [] st.kind = "invalid" -> [rooms |-> <<>>, storage |-> NoItem]

\* saveRoomsToStorage (app): a throwing setItem is caught and logged
saveRoomsToStorage(st, rooms) == setItem(st, JSONstringify(rooms))

\* mutant: the effect writes nothing
SaveEffect_none(st, savedRooms) == st

\* the save effect of ctx and p6: setItem('savedRooms', stringify(savedRooms));
\* nothing catches what setItem throws there (see Apply)
SaveEffect(st, savedRooms) == setItem(st, JSONstringify(savedRooms))

\* "Also update localStorage directly": parsedRooms.map(replace by id),
\* inside try/catch, only when the item is present
DirectUpdate(st, room) ==
  IF st.kind = "array"
  THEN setItem(st, JSONstringify(ReplaceById(JSONparse(st), room)))
  ELSE st

\* update-or-append used by endRoom on the state array
Upsert(arr, room) ==
  IF SomeHasId(arr, room.id) THEN ReplaceById(arr, room) ELSE Append(arr, room)

\* endRoom's direct storage update: upsert, only when the item is present
DirectUpsert(st, room) ==
  IF st.kind = "array"
  THEN setItem(st, JSONstringify(Upsert(JSONparse(st), room)))
  ELSE st

\* createRoom's direct storage write in p6: [...parsedRooms, newRoom]
DirectAppend(st, room) ==
  CASE st.kind = "null"  -> setItem(st, JSONstringify(<<room>>))
    [] st.kind = "array" -> setItem(st, JSONstringify(Append(JSONparse(st), room)))
    [] OTHER             -> st

\* ---------------------------------------------------------------- handlers
\* A handler is an operator from the revision r, the calling tab's provider
\* state s = [currentUser, activeRoom, savedRooms], the storage st, the
\* arguments, the first unused id and the clock, to its outcome: the return
\* value, the provider state after the re-render (all queued setState calls
\* applied in order), the storage after the handler and the effects it
\* triggers, the count of nanoid() calls, the room returned (createRoom) and
\* whether setSavedRooms was called, so that the save effect of ctx and p6
\* runs after the re-render (effect).

\* the outcome of a handler that returns early: nothing is set or written
NoChange(s, st) ==
  [ret |-> FALSE, currentUser |-> s.currentUser, activeRoom |-> s.activeRoom,
   savedRooms |-> s.savedRooms, storage |-> st, ids |-> 0, room |-> Null,
   effect |-> FALSE]

\* mutant: the room that was active is ended, as the form's alert announces
createRoom_endsActive(r, s, st, name, hostName, frac, id0, ts) ==
  LET hostId   == id0
      roomId   == id0 + 1
      roomCode == generateRoomCode(frac)
      host     == NewHost(hostId, hostName)
      newRoom  == NewRoom(roomId, name, host, roomCode, id0 + 2, ts)
      read     == getRoomsFromStorage(st)
      ended    == [f \in DOMAIN s.activeRoom \cup {"endedAt"} |->
                     IF f = "endedAt" THEN ts ELSE s.activeRoom[f]]
      kept     == IF s.activeRoom = Null THEN s.savedRooms
                  ELSE ReplaceById(s.savedRooms, ended)
      saved    == IF r = "app" THEN Append(read.rooms, newRoom)
                  ELSE Append(kept, newRoom)
      written  == CASE r = "ctx" -> SaveEffect(st, saved)
                    [] r = "p6"  -> SaveEffect(st, saved)
                    [] r = "app" -> saveRoomsToStorage(st, saved)
  IN  [ret |-> TRUE, currentUser |-> host, activeRoom |-> newRoom,
       savedRooms |-> saved, storage |-> written, ids |-> 3, room |-> newRoom,
       effect |-> TRUE]

\* createRoom(name, hostName), with frac the fraction Math.random() returns
createRoom(r, s, st, name, hostName, frac, id0, ts) ==
  LET hostId   == id0
      roomId   == id0 + 1
      roomCode == generateRoomCode(frac)
      host     == NewHost(hostId, hostName)
      newRoom  == NewRoom(roomId, name, host, roomCode, id0 + 2, ts)
      read     == getRoomsFromStorage(st)
      saved    == IF r = "app" THEN Append(read.rooms, newRoom)
                  ELSE Append(s.savedRooms, newRoom)
      written  == CASE r = "ctx" -> SaveEffect(st, saved)
                    [] r = "p6"  -> LET direct == DirectAppend(st, newRoom)
                                    IN  SaveEffect(st, saved)
                    [] r = "app" -> saveRoomsToStorage(st, saved)
  IN  [ret |-> TRUE, currentUser |-> host, activeRoom |-> newRoom,
       savedRooms |-> saved, storage |-> written, ids |-> 3, room |-> newRoom,
       effect |-> TRUE]

\* mutant: the active room is not looked at first
JoinTarget_collectionFirst(r, s, latestRooms, formattedCode) ==
  LET Matches(room) == room.code = formattedCode /\ ~HasEnded(room)
  IN  CASE r = "ctx" -> ArrayFind(s.savedRooms, Matches)
        [] r = "p6"  -> IF ArrayFind(latestRooms, Matches) # Null
                        THEN ArrayFind(latestRooms, Matches)
                        ELSE ArrayFind(s.savedRooms, Matches)
        [] r = "app" -> ArrayFind(latestRooms, Matches)

\* the room joinRoom picks: the active room when its code matches and it has
\* not ended, else the first not-ended room with the code in the list(s) the
\* revision searches; Null when there is none
JoinTarget(r, s, latestRooms, formattedCode) ==
  LET Matches(room) == room.code = formattedCode /\ ~HasEnded(room)
  IN  IF s.activeRoom # Null /\ Matches(s.activeRoom) THEN s.activeRoom
      ELSE CASE r = "ctx" -> ArrayFind(s.savedRooms, Matches)
             [] r = "p6"  -> IF ArrayFind(latestRooms, Matches) # Null
                             THEN ArrayFind(latestRooms, Matches)
                             ELSE ArrayFind(s.savedRooms, Matches)
             [] r = "app" -> ArrayFind(latestRooms, Matches)

\* mutant: the names compared as typed, without toLowerCase
ExistingUser_caseSensitive(targetRoom, userName) ==
  LET SameName(p) == p.name = trim(userName)
  IN  ArrayFind(targetRoom.participants, SameName)

\* existingUser: a participant whose name equals the trimmed userName,
\* ignoring case
ExistingUser(targetRoom, userName) ==
  LET SameName(p) == toLowerCase(p.name) = toLowerCase(trim(userName))
  IN  ArrayFind(targetRoom.participants, SameName)

\* mutant: the joining user is given the role of a host
NewUser_asHost(userId, userName, participants) ==
  [id |-> userId, name |-> trim(userName),
   displayChar |-> getDisplayChar(userName, participants),
   role |-> "host"]

\* the participant User built by joinRoom
NewUser(userId, userName, participants) ==
  [id |-> userId, name |-> trim(userName),
   displayChar |-> getDisplayChar(userName, participants),
   role |-> "participant"]

\* mutant: the join is not announced
JoinedRoom_silent(targetRoom, user, msgId, ts) ==
  [targetRoom EXCEPT !.participants = Append(@, user)]

\* {...targetRoom, participants: [..., user], messages: [..., systemMessage]}
JoinedRoom(targetRoom, user, msgId, ts) ==
  [targetRoom EXCEPT
     !.participants = Append(@, user),
     !.messages = Append(@, SystemMessage(msgId, JoinedContent(user.displayChar), ts))]

\* joinRoom(code, userName)
joinRoom(r, s, st, code, userName, id0, ts) ==
  IF Len(code) = 0 \/ Len(userName) = 0 \/ Len(trim(userName)) = 0
  THEN NoChange(s, st)
  ELSE
  LET formattedCode == toUpperCase(trim(code))
      read        == getRoomsFromStorage(st)
      \* p6 parses the item itself and keeps [] when it is absent or throws
      latestRooms == IF r = "app" THEN read.rooms
                     ELSE IF st.kind = "array" THEN JSONparse(st) ELSE <<>>
      \* state after setSavedRooms(latestRooms): app always, p6 when the
      \* item is present, ctx never
      refreshed   == CASE r = "ctx" -> s.savedRooms
                       [] r = "p6"  -> IF st.kind = "array" THEN latestRooms
                                       ELSE s.savedRooms
                       [] r = "app" -> latestRooms
      \* storage after the reads (and, in p6, after the save effect the
      \* refresh triggers)
      stRead      == CASE r = "ctx" -> st
                       [] r = "p6"  -> IF st.kind = "array"
                                       THEN SaveEffect(st, refreshed) ELSE st
                       [] r = "app" -> read.storage
      targetRoom  == JoinTarget(r, s, latestRooms, formattedCode)
      failed      == [ret |-> FALSE, currentUser |-> s.currentUser,
                      activeRoom |-> s.activeRoom, savedRooms |-> refreshed,
                      storage |-> stRead, ids |-> 0, room |-> Null,
                      effect |-> (r = "p6" /\ st.kind = "array")]
  IN  IF targetRoom = Null \/ HasEnded(targetRoom) THEN failed
      ELSE IF ExistingUser(targetRoom, userName) # Null THEN failed
      ELSE
      LET user        == NewUser(id0, userName, targetRoom.participants)
          updatedRoom == JoinedRoom(targetRoom, user, id0 + 1, ts)
          saved       == ReplaceById(refreshed, updatedRoom)
          written     == CASE r = "ctx" -> SaveEffect(st, saved)
                           [] r = "p6"  ->
                                LET direct == DirectUpdate(st, updatedRoom)
                                IN  SaveEffect(st, saved)
                           [] r = "app" -> saveRoomsToStorage(st, saved)
      IN  [ret |-> TRUE, currentUser |-> user, activeRoom |-> updatedRoom,
           savedRooms |-> saved, storage |-> written, ids |-> 2, room |-> Null,
       effect |-> TRUE]

\* mutant: the content stored as typed
NewMessage_untrimmed(id, currentUser, content, ts) ==
  [id |-> id, senderId |-> currentUser.id,
   senderDisplayChar |-> currentUser.displayChar,
   content |-> content, timestamp |-> ts]

\* the Message built by sendMessage: no isSystem field
NewMessage(id, currentUser, content, ts) ==
  [id |-> id, senderId |-> currentUser.id,
   senderDisplayChar |-> currentUser.displayChar,
   content |-> trim(content), timestamp |-> ts]

\* the guards of sendMessage
CanSend(s, content) ==
  /\ Len(content) # 0 /\ Len(trim(content)) # 0
  /\ s.activeRoom # Null /\ s.currentUser # Null
  /\ ~HasEnded(s.activeRoom)

\* sendMessage(content)
sendMessage(r, s, st, content, id0, ts) ==
  IF ~CanSend(s, content) THEN NoChange(s, st)
  ELSE
  LET newMessage  == NewMessage(id0, s.currentUser, content, ts)
      updatedRoom == [s.activeRoom EXCEPT !.messages = Append(@, newMessage)]
      saved       == ReplaceById(s.savedRooms, updatedRoom)
      written     == CASE r = "ctx" -> SaveEffect(st, saved)
                       [] r = "p6"  -> LET direct == DirectUpdate(st, updatedRoom)
                                       IN  SaveEffect(st, saved)
                       [] r = "app" -> DirectUpdate(st, updatedRoom)
  IN  [ret |-> TRUE, currentUser |-> s.currentUser, activeRoom |-> updatedRoom,
       savedRooms |-> saved, storage |-> written, ids |-> 1, room |-> Null,
       effect |-> TRUE]

\* mutant: the room is ended without the closing message
EndedRoom_noMessage(activeRoom, msgId, ts) ==
  [id |-> activeRoom.id, name |-> activeRoom.name,
   createdAt |-> activeRoom.createdAt, hostId |-> activeRoom.hostId,
   participants |-> activeRoom.participants,
   messages |-> activeRoom.messages,
   code |-> activeRoom.code, endedAt |-> ts]

\* {...activeRoom, endedAt: Date.now(), messages: [..., closing message]}
EndedRoom(activeRoom, msgId, ts) ==
  [id |-> activeRoom.id, name |-> activeRoom.name,
   createdAt |-> activeRoom.createdAt, hostId |-> activeRoom.hostId,
   participants |-> activeRoom.participants,
   messages |-> Append(activeRoom.messages, SystemMessage(msgId, ClosedContent, ts)),
   code |-> activeRoom.code, endedAt |-> ts]

\* mutant: the role of the current user is not looked at
CanEnd_anyRole(s) ==
  s.activeRoom # Null /\ s.currentUser # Null

\* the guard of endRoom
CanEnd(s) ==
  s.activeRoom # Null /\ s.currentUser # Null /\ s.currentUser.role = "host"

\* mutant: the ended room stays the active room
endRoom_keepsActive(r, s, st, id0, ts) ==
  IF ~CanEnd(s) THEN NoChange(s, st)
  ELSE
  LET endedRoom == EndedRoom(s.activeRoom, id0, ts)
      saved     == Upsert(s.savedRooms, endedRoom)
      written   == CASE r = "ctx" -> SaveEffect(st, saved)
                     [] r = "p6"  -> SaveEffect(st, saved)
                     [] r = "app" -> DirectUpsert(st, endedRoom)
  IN  [ret |-> TRUE, currentUser |-> Null, activeRoom |-> endedRoom,
       savedRooms |-> saved, storage |-> written, ids |-> 1, room |-> Null,
       effect |-> TRUE]

\* endRoom(); ret tells whether the guard let it act (the handler is void)
endRoom(r, s, st, id0, ts) ==
  IF ~CanEnd(s) THEN NoChange(s, st)
  ELSE
  LET endedRoom == EndedRoom(s.activeRoom, id0, ts)
      saved     == Upsert(s.savedRooms, endedRoom)
      written   == CASE r = "ctx" -> SaveEffect(st, saved)
                     [] r = "p6"  -> LET direct == DirectUpsert(st, endedRoom)
                                     IN  SaveEffect(st, saved)
                     [] r = "app" -> DirectUpsert(st, endedRoom)
  IN  [ret |-> TRUE, currentUser |-> Null, activeRoom |-> Null,
       savedRooms |-> saved, storage |-> written, ids |-> 1, room |-> Null,
       effect |-> TRUE]

\* mutant: the filter inverted, keeping only the user who leaves
LeftRoom_inverted(activeRoom, currentUser, msgId, ts) ==
  LET Leaves(p) == p.id = currentUser.id
  IN  [activeRoom EXCEPT
         !.participants = SelectSeq(@, Leaves),
         !.messages = Append(@, SystemMessage(msgId, LeftContent(currentUser.displayChar), ts))]

\* {...activeRoom, participants: filter(p.id !== currentUser.id),
\*  messages: [..., left message]}
LeftRoom(activeRoom, currentUser, msgId, ts) ==
  LET Stays(p) == p.id # currentUser.id
  IN  [activeRoom EXCEPT
         !.participants = SelectSeq(@, Stays),
         !.messages = Append(@, SystemMessage(msgId, LeftContent(currentUser.displayChar), ts))]

\* mutant: a host leaves like a participant, endRoom is not called
leaveRoom_noDelegate(r, s, st, id0, ts) ==
  IF s.activeRoom = Null \/ s.currentUser = Null THEN NoChange(s, st)
  ELSE
  LET updatedRoom == LeftRoom(s.activeRoom, s.currentUser, id0, ts)
      saved       == ReplaceById(s.savedRooms, updatedRoom)
      written     == CASE r = "ctx" -> SaveEffect(st, saved)
                       [] r = "p6"  -> SaveEffect(st, saved)
                       [] r = "app" -> DirectUpdate(st, updatedRoom)
  IN  [ret |-> TRUE, currentUser |-> Null, activeRoom |-> updatedRoom,
       savedRooms |-> saved, storage |-> written, ids |-> 1, room |-> Null,
       effect |-> TRUE]

\* leaveRoom(); ret tells whether the guard let it act (the handler is void)
leaveRoom(r, s, st, id0, ts) ==
  IF s.activeRoom = Null \/ s.currentUser = Null THEN NoChange(s, st)
  ELSE IF s.currentUser.role = "host" THEN endRoom(r, s, st, id0, ts)
  ELSE
  LET updatedRoom == LeftRoom(s.activeRoom, s.currentUser, id0, ts)
      saved       == ReplaceById(s.savedRooms, updatedRoom)
      written     == CASE r = "ctx" -> SaveEffect(st, saved)
                       [] r = "p6"  -> LET direct == DirectUpdate(st, updatedRoom)
                                       IN  SaveEffect(st, saved)
                       [] r = "app" -> DirectUpdate(st, updatedRoom)
  IN  [ret |-> TRUE, currentUser |-> Null, activeRoom |-> updatedRoom,
       savedRooms |-> saved, storage |-> written, ids |-> 1, room |-> Null,
       effect |-> TRUE]

\* ------------------------------------------------------------------ inputs
Revisions == {"ctx", "p6", "app"}

Tabs == {"tabA", "tabB"}

\* the tabs are interchangeable: the one opened first is called tabA
FirstTab == "tabA"

Standup == <<"S","t","a","n","d","u","p">>
Alice   == <<"A","l","i","c","e">>
Bob     == <<"B","o","b">>

RoomNames == {Standup}

HostNames == {Alice}

\* the fraction Math.random() returns, as base-36 digits (8 of them)
Fractions == {<<"a","b","c","1","2","3","x","y">>}

\* what is typed into the join form, <<code, userName>>: the code as shown
\* with a plain name, the code in lower case after a blank with a name that
\* differs from the plain one in case and has a leading blank, the host's
\* name in lower case, a blank name, an empty code
JoinInputs ==
  {<<(<<"A","B","C","1","2","3">>), Bob>>,
   <<(<<" ","a","b","c","1","2","3">>), (<<" ","b","o","b">>)>>,
   <<(<<"A","B","C","1","2","3">>), (<<"a","l","i","c","e">>)>>,
   <<(<<"A","B","C","1","2","3">>), (<<" ">>)>>,
   <<(<<>>), Bob>>}

Contents == {<<" ","h","i"," ">>, <<" ">>, <<>>}

\* ------------------------------------------------------------ state machine
\* the provider state useState() gives a tab before its first render
InitialTab ==
  [phase |-> "new", currentUser |-> Null, activeRoom |-> Null, savedRooms |-> <<>>]

\* what is left of a tab's provider when an effect has thrown: no error
\* boundary is around it, so React unmounts the whole tree and its state
Unmounted ==
  [phase |-> "crashed", currentUser |-> Null, activeRoom |-> Null, savedRooms |-> <<>>]

Init ==
  /\ rev \in Revisions
  /\ storage = NoItem
  /\ tabs = [t \in Tabs |-> InitialTab]
  /\ nextId = 1
  /\ now = 1
  /\ last = [op |-> "init", tab |-> "none", ret |-> FALSE, room |-> Null]
  /\ quotaExceeded = FALSE

\* First commit of a tab's provider: the load effect, then (ctx, p6) the save
\* effect of the same render, whose savedRooms is still the initial [].
\* When the load effect has called setSavedRooms, a re-render is pending
\* ("loaded"); ctx and p6 call it only when the item is present.
Mount(t) ==
  /\ tabs[t].phase = "new"
  /\ t = FirstTab \/ tabs[FirstTab].phase # "new"
  /\ LET read   == getRoomsFromStorage(storage)
         loaded == IF rev = "app" THEN read.rooms
                   ELSE IF storage.kind = "array" THEN JSONparse(storage) ELSE <<>>
         phase  == IF rev = "app" \/ storage.kind = "array" THEN "loaded" ELSE "done"
     IN  /\ tabs' = [tabs EXCEPT ![t] =
                        IF rev # "app" /\ quotaExceeded THEN Unmounted
                        ELSE [@ EXCEPT !.phase = phase, !.savedRooms = loaded]]
         /\ storage' = IF rev = "app" THEN read.storage
                       ELSE SaveEffect(storage, <<>>)
  /\ last' = [op |-> "mount", tab |-> t, ret |-> TRUE, room |-> Null]
  /\ UNCHANGED <<rev, nextId, now, quotaExceeded>>

\* The re-render the load effect asked for: savedRooms changed, so the save
\* effect (ctx, p6) runs again, now with the loaded rooms; app has none.
Rerender(t) ==
  /\ tabs[t].phase = "loaded"
  /\ tabs' = [tabs EXCEPT ![t] =
                 IF rev # "app" /\ quotaExceeded THEN Unmounted
                 ELSE [@ EXCEPT !.phase = "done"]]
  /\ storage' = IF rev = "app" THEN storage
                ELSE SaveEffect(storage, tabs[t].savedRooms)
  /\ last' = [op |-> "rerender", tab |-> t, ret |-> TRUE, room |-> Null]
  /\ UNCHANGED <<rev, nextId, now, quotaExceeded>>

\* the provider state of tab t as a handler's closure sees it
Closure(t) ==
  [currentUser |-> tabs[t].currentUser, activeRoom |-> tabs[t].activeRoom,
   savedRooms |-> tabs[t].savedRooms]

\* A handler call of tab t with outcome o, re-render and effects included.
\* A call that changes the room data takes one tick of the clock.  last is
\* the last call that set or wrote something: a call that returns at a guard
\* without setting or writing anything is no step at all.  The handler has
\* returned when the save effect runs; when its setItem throws, the tab's
\* provider is unmounted.
Apply(t, op, outcome) ==
  /\ tabs[t].phase = "done"
  /\ LET o == outcome
     IN  /\ o.ret = FALSE \/ now < MaxNow
         /\ tabs' = [tabs EXCEPT ![t] =
              IF rev # "app" /\ o.effect /\ quotaExceeded THEN Unmounted
              ELSE [phase |-> "done", currentUser |-> o.currentUser,
                    activeRoom |-> o.activeRoom, savedRooms |-> o.savedRooms]]
         /\ storage' = o.storage
         /\ nextId' = nextId + o.ids
         /\ now' = IF o.ret THEN now + 1 ELSE now
         /\ last' = IF o.ret
                      THEN [op |-> op, tab |-> t, ret |-> TRUE, room |-> o.room]
                    ELSE IF /\ o.currentUser = tabs[t].currentUser
                            /\ o.activeRoom = tabs[t].activeRoom
                            /\ o.savedRooms = tabs[t].savedRooms
                            /\ o.storage = storage
                      THEN last
                    ELSE [op |-> op, tab |-> "any", ret |-> FALSE, room |-> Null]
  /\ UNCHANGED <<rev, quotaExceeded>>

CreateRoom(t) ==
  \E name \in RoomNames, hostName \in HostNames, frac \in Fractions :
    Apply(t, "createRoom",
          createRoom(rev, Closure(t), storage, name, hostName, frac, nextId, now))

JoinRoom(t) ==
  \E in \in JoinInputs :
    Apply(t, "joinRoom",
          joinRoom(rev, Closure(t), storage, in[1], in[2], nextId, now))

SendMessage(t) ==
  \E content \in Contents :
    Apply(t, "sendMessage",
          sendMessage(rev, Closure(t), storage, content, nextId, now))

EndRoom(t) ==
  Apply(t, "endRoom", endRoom(rev, Closure(t), storage, nextId, now))

LeaveRoom(t) ==
  Apply(t, "leaveRoom", leaveRoom(rev, Closure(t), storage, nextId, now))

Next ==
  \E t \in Tabs :
    \/ Mount(t)
    \/ Rerender(t)
    \/ CreateRoom(t)
    \/ JoinRoom(t)
    \/ SendMessage(t)
    \/ EndRoom(t)
    \/ LeaveRoom(t)

Spec == Init /\ [][Next]_vars

\* The origin's storage quota gets used up (by this or another application
\* of the origin): from then on every setItem throws QuotaExceededError.
FillStorage ==
  /\ ~quotaExceeded
  /\ quotaExceeded' = TRUE
  /\ UNCHANGED <<rev, storage, tabs, nextId, now, last>>

NextFull == Next \/ FillStorage

\* one specification per revision of the provider
InitCtx == Init /\ rev = "ctx"
InitP6  == Init /\ rev = "p6"
InitApp == Init /\ rev = "app"

SpecCtx == InitCtx /\ [][Next]_vars
SpecP6  == InitP6 /\ [][Next]_vars
SpecApp == InitApp /\ [][Next]_vars

\* the same, in a browser whose storage quota can run out
SpecCtxFull == InitCtx /\ [][NextFull]_vars
SpecAppFull == InitApp /\ [][NextFull]_vars

\* ------------------------------------------------------ presentation layer
\* what ChatRoom renders: nothing without active room or current user
ChatRoom(s) ==
  IF s.activeRoom = Null \/ s.currentUser = Null THEN "nothing" ELSE "chat"

\* what ChatApp (pages/Index.tsx) renders while viewMode is 'home', which it
\* is whenever the chat is on screen: ChatRoom when there is an active room,
\* else the home view with the create and join forms
ChatApp(s) == IF s.activeRoom # Null THEN ChatRoom(s) ELSE "home"

\* the create form is submitted: both names must be non-blank, and are trimmed
CreateRoomFormSubmit(t) ==
  /\ ChatApp(Closure(t)) = "home"
  /\ \E roomName \in RoomNames, hostName \in HostNames, frac \in Fractions :
       /\ Len(trim(roomName)) # 0 /\ Len(trim(hostName)) # 0
       /\ Apply(t, "createRoom",
                createRoom(rev, Closure(t), storage, trim(roomName), trim(hostName),
                           frac, nextId, now))

\* the join form is submitted: code and name must be non-blank; the code is
\* trimmed and upper-cased, the name is passed as typed
JoinRoomFormSubmit(t) ==
  /\ ChatApp(Closure(t)) = "home"
  /\ \E in \in JoinInputs :
       /\ Len(trim(in[1])) # 0 /\ Len(trim(in[2])) # 0
       /\ Apply(t, "joinRoom",
                joinRoom(rev, Closure(t), storage, toUpperCase(trim(in[1])), in[2],
                         nextId, now))

\* the message form of the chat view is submitted
handleSendMessage(t) ==
  /\ ChatApp(Closure(t)) = "chat"
  /\ \E message \in Contents :
       /\ Len(trim(message)) # 0
       /\ Apply(t, "sendMessage",
                sendMessage(rev, Closure(t), storage, message, nextId, now))

\* 'Leave Room' / 'End Room' is confirmed in the dialog of the chat view
LeaveRoomConfirm(t) ==
  /\ ChatApp(Closure(t)) = "chat"
  /\ Apply(t, "leaveRoom", leaveRoom(rev, Closure(t), storage, nextId, now))

\* the store driven through what is on screen only
NextUi ==
  \E t \in Tabs :
    \/ Mount(t)
    \/ Rerender(t)
    \/ CreateRoomFormSubmit(t)
    \/ JoinRoomFormSubmit(t)
    \/ handleSendMessage(t)
    \/ LeaveRoomConfirm(t)

SpecUi == InitCtx /\ [][NextUi]_vars

\* --------------------------------------------- joins into one session's room
\* names typed into the join form one after the other: two starting with the
\* same letter, one starting with the host's letter, two starting with the
\* letter whose upper case is two characters long
JoinNames ==
  {Bob, <<"b","i","l","l">>, <<"h","a","l">>,
   <<"ß","e","t","a">>, <<"ß","a","r","a">>}

\* joinRoom with the code of the rooms and one of these names
JoinRoomAs(t) ==
  \E userName \in JoinNames :
    Apply(t, "joinRoom",
          joinRoom(rev, Closure(t), storage, <<"A","B","C","1","2","3">>, userName,
                   nextId, now))

\* one store: rooms are created and joined, nobody leaves or ends
NextJoins ==
  \/ Mount(FirstTab)
  \/ CreateRoom(FirstTab)
  \/ JoinRoomAs(FirstTab)

SpecJoins == InitCtx /\ [][NextJoins]_vars

\* ------------------------------------------------- getDisplayChar on its own
\* names handed to getDisplayChar: two with the same first letter in
\* different case, one starting with the host's letter, one starting with a
\* letter whose upper case is two characters long, the empty name
Jane == <<"J","a","n","e">>

LabelNames ==
  {Jane, <<"j","a","c","k">>, <<"h","a","l">>, <<"ß","e","t","a">>, <<>>}

\* the provider's getDisplayChar is handed out through the context value and
\* reads nothing but its arguments; last holds the call, its result, and the
\* participants list with the user so labelled added, which is the list of
\* the next call (as joinRoom does with the room's participants)
InitLabels ==
  /\ rev = "ctx"
  /\ storage = NoItem
  /\ tabs = [t \in Tabs |-> InitialTab]
  /\ nextId = 2
  /\ now = 1
  /\ quotaExceeded = FALSE
  /\ \E first \in {<<>>, <<NewHost(1, Alice)>>} :
       last = [op |-> "participants", name |-> <<>>, given |-> <<>>,
               ret |-> <<>>, participants |-> first]

GetDisplayChar(name) ==
  /\ Len(last.participants) < MaxParticipants
  /\ LET displayChar == getDisplayChar(name, last.participants)
     IN  last' = [op |-> "getDisplayChar", name |-> name,
                  given |-> last.participants, ret |-> displayChar,
                  participants |->
                    Append(last.participants,
                           [id |-> nextId, name |-> name,
                            displayChar |-> displayChar, role |-> "participant"])]
  /\ nextId' = nextId + 1
  /\ UNCHANGED <<rev, storage, tabs, now, quotaExceeded>>

NextLabels == \E name \in LabelNames : GetDisplayChar(name)

SpecDisplayChar == InitLabels /\ [][NextLabels]_vars

\* ----------------------------------------------- generateRoomCode on its own
\* the digits Math.random().toString(36) prints after "0.": any number of
\* them, none for 0 and one for 0.5 ("0.i"); the last one is never "0"
RECURSIVE DigitStrings(_)
DigitStrings(n) ==
  IF n = 0 THEN {<<>>}
  ELSE DigitStrings(n - 1)
         \cup {Append(f, d) : f \in {g \in DigitStrings(n - 1) : Len(g) = n - 1},
                              d \in {"1", "z"}}

AllFractions == DigitStrings(MaxDigits)

InitCode ==
  /\ rev = "ctx"
  /\ storage = NoItem
  /\ tabs = [t \in Tabs |-> InitialTab]
  /\ nextId = 1
  /\ now = 1
  /\ last = [op |-> "init", frac |-> <<>>, ret |-> <<>>]
  /\ quotaExceeded = FALSE

GenerateRoomCode(frac) ==
  /\ last' = [op |-> "generateRoomCode", frac |-> frac,
              ret |-> generateRoomCode(frac)]
  /\ UNCHANGED <<rev, storage, tabs, nextId, now, quotaExceeded>>

NextCode == \E frac \in AllFractions : GenerateRoomCode(frac)

SpecRoomCode == InitCode /\ [][NextCode]_vars

\* ------------------------- getRoomsFromStorage, saveRoomsToStorage on their own
\* rooms as the handlers build them: new, joined, with a message, ended
\* (ids and times of one and of two digits)
RoomCreated == NewRoom(2, Standup, NewHost(1, Alice), <<"A","B","C","1","2","3">>, 3, 9)

RoomJoined ==
  JoinedRoom(RoomCreated, NewUser(4, Bob, RoomCreated.participants), 5, 10)

RoomWithMessage ==
  [RoomJoined EXCEPT
     !.messages = Append(@, NewMessage(11, RoomJoined.participants[2],
                                       <<" ","h","i"," ">>, 12))]

RoomEnded == EndedRoom(RoomWithMessage, 13, 14)

WellFormedRooms == {RoomCreated, RoomJoined, RoomWithMessage, RoomEnded}

RECURSIVE RoomArrays(_)
RoomArrays(n) ==
  IF n = 0 THEN {<<>>}
  ELSE RoomArrays(n - 1)
         \cup {Append(a, room) : a \in {b \in RoomArrays(n - 1) : Len(b) = n - 1},
                                 room \in WellFormedRooms}

\* texts under the key that no array of rooms gives: JSON that is not an
\* array (an object, a number, ...), and text that is no JSON at all
OtherTexts == {[kind |-> "object"], [kind |-> "invalid"]}

InitStorage ==
  /\ rev = "app"
  /\ storage \in {NoItem} \cup OtherTexts
  /\ tabs = [t \in Tabs |-> InitialTab]
  /\ nextId = 1
  /\ now = 1
  /\ last = [op |-> "init", rooms |-> <<>>, item |-> NoItem]
  /\ quotaExceeded = FALSE

\* a call of saveRoomsToStorage(rooms); item is the text under the key at
\* the time of the call
SaveRoomsToStorage(rooms) ==
  /\ storage' = saveRoomsToStorage(storage, rooms)
  /\ last' = [op |-> "saveRoomsToStorage", rooms |-> rooms, item |-> storage]
  /\ UNCHANGED <<rev, tabs, nextId, now, quotaExceeded>>

\* a call of getRoomsFromStorage(); rooms is what it returns
GetRoomsFromStorage ==
  /\ LET read == getRoomsFromStorage(storage)
     IN  /\ storage' = read.storage
         /\ last' = [op |-> "getRoomsFromStorage", rooms |-> read.rooms,
                     item |-> storage]
  /\ UNCHANGED <<rev, tabs, nextId, now, quotaExceeded>>

\* something else of the origin writes the key
OtherWrite(text) ==
  /\ storage # text
  /\ storage' = text
  /\ last' = [op |-> "otherWrite", rooms |-> <<>>, item |-> storage]
  /\ UNCHANGED <<rev, tabs, nextId, now, quotaExceeded>>

NextStorage ==
  \/ \E rooms \in RoomArrays(MaxRooms) : SaveRoomsToStorage(rooms)
  \/ GetRoomsFromStorage
  \/ \E text \in OtherTexts : OtherWrite(text)

SpecStorage == InitStorage /\ [][NextStorage]_vars

\* ------------------------------------------------------------------ claims
\* msg.isSystem is truthy
IsSystem(msg) == "isSystem" \in DOMAIN msg /\ msg.isSystem

\* C1: every createRoom call returns a room whose participants are exactly
\* one user, the host (role 'host', displayChar 'H', id = hostId), with exactly
\* one message, a system message, and no endedAt; that room is the calling
\* session's activeRoom afterwards and the host its currentUser.
C1_CreateRoomResult ==
  [][last'.op = "createRoom" =>
       LET room == last'.room
           host == room.participants[1]
       IN  /\ last'.ret
           /\ Len(room.participants) = 1
           /\ host.role = "host"
           /\ host.displayChar = <<"H">>
           /\ host.id = room.hostId
           /\ Len(room.messages) = 1
           /\ IsSystem(room.messages[1])
           /\ "endedAt" \notin DOMAIN room
           /\ tabs'[last'.tab].activeRoom = room
           /\ tabs'[last'.tab].currentUser = host]_vars

\* C1 witness: a createRoom call has just returned its room
C1_Witness ==
  /\ last.op = "createRoom"
  /\ last.room # Null
  /\ tabs[last.tab].activeRoom = last.room

\* the persisted collection, as a reader that tolerates a missing item sees it
StoredRooms == IF storage.kind = "array" THEN JSONparse(storage) ELSE <<>>

\* s is a prefix of t
IsPrefix(s, t) == Len(s) <= Len(t) /\ SubSeq(t, 1, Len(s)) = s

\* C2: after createRoom('Standup','Alice'), joinRoom(C,'Bob'), sendMessage('hi')
\* as Bob and endRoom() by Alice, the room holds 2 participants and the 4
\* messages [creation, join, Bob's message, closing] in this order, has
\* endedAt, and Alice's session has no activeRoom.  Stated for the state
\* right after Alice's endRoom: Bob's session (tab b) still shows the room
\* with its first three messages, and the room stored under that id is the
\* one Alice's session (tab a) has just ended.
C2_Scenario ==
  \A a, b \in Tabs :
    LET bobRoom == tabs[b].activeRoom
        bob     == tabs[b].currentUser
    IN  ( /\ last.op = "endRoom" /\ last.ret /\ last.tab = a
          /\ bobRoom # Null /\ bob # Null
          /\ bob.name = Bob
          /\ bobRoom.name = Standup
          /\ Len(bobRoom.participants) = 2
          /\ bobRoom.participants[1].name = Alice
          /\ Len(bobRoom.messages) = 3
          /\ bobRoom.messages[3].senderId = bob.id
          /\ \E i \in DOMAIN StoredRooms :
                /\ StoredRooms[i].id = bobRoom.id
                /\ HasEnded(StoredRooms[i])
                /\ StoredRooms[i].endedAt = now - 1 )
        => /\ tabs[a].activeRoom = Null
           /\ \A i \in DOMAIN StoredRooms :
                StoredRooms[i].id = bobRoom.id =>
                  /\ HasEnded(StoredRooms[i])
                  /\ Len(StoredRooms[i].participants) = 2
                  /\ Len(StoredRooms[i].messages) = 4
                  /\ SubSeq(StoredRooms[i].messages, 1, 3) = bobRoom.messages
                  /\ StoredRooms[i].messages[4].content = ClosedContent

\* the elements of an array
RoomsOf(arr) == {arr[i] : i \in DOMAIN arr}

\* every copy of a room there is: persisted, in a session's savedRooms, active
AllRooms ==
  RoomsOf(StoredRooms)
    \cup UNION {RoomsOf(tabs[t].savedRooms) : t \in Tabs}
    \cup {tabs[t].activeRoom : t \in {u \in Tabs : tabs[u].activeRoom # Null}}

\* the rooms a session knows: its collection and its active room
KnownRooms(t) ==
  RoomsOf(tabs[t].savedRooms)
    \cup (IF tabs[t].activeRoom # Null THEN {tabs[t].activeRoom} ELSE {})

\* only one store instance has ever been opened
OnlyOneStore == \A t \in Tabs \ {FirstTab} : tabs[t].phase = "new"

\* outcome o leaves the session s and the storage as they are
LeavesUnchanged(o, s) ==
  /\ o.currentUser = s.currentUser
  /\ o.activeRoom = s.activeRoom
  /\ o.savedRooms = s.savedRooms
  /\ o.storage = storage

\* C3: in a single store, joinRoom with a code that only rooms with endedAt
\* carry returns false, and sendMessage returns false when activeRoom has
\* endedAt; neither changes activeRoom, currentUser or any room.  No session
\* ever holds an ended activeRoom, so the second half applies sendMessage to
\* the session with each ended room of its collection put in as activeRoom.
C3_EndedRoomRejects ==
  OnlyOneStore =>
    \A t \in {u \in Tabs : tabs[u].phase = "done"} :
      LET s == Closure(t)
      IN  /\ \A in \in JoinInputs :
               LET matching == {r \in KnownRooms(t) : r.code = toUpperCase(trim(in[1]))}
                   o == joinRoom(rev, s, storage, in[1], in[2], nextId, now)
               IN  (matching # {} /\ \A r \in matching : "endedAt" \in DOMAIN r)
                     => ~o.ret /\ LeavesUnchanged(o, s)
          /\ \A room \in {r \in KnownRooms(t) : "endedAt" \in DOMAIN r} :
               \A content \in Contents :
                 LET s2 == [s EXCEPT !.activeRoom = room,
                                     !.currentUser = room.participants[1]]
                     o  == sendMessage(rev, s2, storage, content, nextId, now)
                 IN  ~o.ret /\ LeavesUnchanged(o, s2)

\* C3 witness: a single store whose only room has ended (the host's endRoom
\* was the last call), where joinRoom with the room's code returns false
C3_Witness ==
  /\ OnlyOneStore
  /\ last.op = "endRoom" /\ last.ret
  /\ KnownRooms(FirstTab) # {}
  /\ \A r \in KnownRooms(FirstTab) :
       /\ "endedAt" \in DOMAIN r
       /\ ~joinRoom(rev, Closure(FirstTab), storage, r.code, Bob, nextId, now).ret

\* C4: a room persisted with endedAt stays in the persisted collection, as it
\* is (endedAt, messages, participants), through every step of every tab.
C4_EndedRoomKept ==
  [][\A i \in DOMAIN StoredRooms :
       HasEnded(StoredRooms[i]) =>
         \E j \in DOMAIN StoredRooms' : StoredRooms'[j] = StoredRooms[i]]_vars

\* C5: once the host has ended a room (it is persisted with endedAt), no
\* session that still has this room as activeRoom gets true from sendMessage.
C5_EndedForAll ==
  [][(last'.op = "sendMessage" /\ last'.ret) =>
       ~\E i \in DOMAIN StoredRooms :
           /\ StoredRooms[i].id = tabs[last'.tab].activeRoom.id
           /\ HasEnded(StoredRooms[i])]_vars

\* C6: every room without endedAt, active or in a collection, has exactly one
\* participant with role 'host', and that participant's id is the hostId.
C6_OneHost ==
  \A r \in AllRooms :
    "endedAt" \notin DOMAIN r =>
      /\ Cardinality({i \in DOMAIN r.participants : r.participants[i].role = "host"}) = 1
      /\ \A i \in DOMAIN r.participants :
           r.participants[i].role = "host" => r.participants[i].id = r.hostId

\* C6 witness: a participant has just left a room that is still open
C6_Witness ==
  /\ last.op = "leaveRoom" /\ last.ret
  /\ tabs[last.tab].activeRoom # Null
  /\ "endedAt" \notin DOMAIN tabs[last.tab].activeRoom

\* C7: joinRoom returns false and adds neither participant nor message (the
\* session's user and active room stay, and its collection and the storage
\* hold no room that was not there before) when the room it targets has a
\* participant (host included) whose name equals the trimmed userName
\* ignoring case; and no room ever has two participants whose names are
\* equal ignoring case.
C7_UniqueNames ==
  /\ \A t \in {u \in Tabs : tabs[u].phase = "done"} :
       \A in \in {x \in JoinInputs : Len(x[1]) > 0} :
         LET s      == Closure(t)
             target == JoinTarget(rev, s, StoredRooms, toUpperCase(trim(in[1])))
             o      == joinRoom(rev, s, storage, in[1], in[2], nextId, now)
         IN  ( /\ target # Null
               /\ \E i \in DOMAIN target.participants :
                    toLowerCase(target.participants[i].name) = toLowerCase(trim(in[2])) )
             => /\ ~o.ret
                /\ o.currentUser = s.currentUser
                /\ o.activeRoom = s.activeRoom
                /\ RoomsOf(o.savedRooms) \subseteq AllRooms
                /\ o.storage.kind = "array" => RoomsOf(JSONparse(o.storage)) \subseteq AllRooms
  /\ \A r \in AllRooms :
       \A i, j \in DOMAIN r.participants :
         i # j => toLowerCase(r.participants[i].name) # toLowerCase(r.participants[j].name)

\* C7 witness: Bob has just joined an open room (the host Alice is the other
\* participant), and joinRoom for ' bob' with the room's code in lower case
\* returns false in that session
C7_Witness ==
  /\ last.op = "joinRoom" /\ last.ret
  /\ LET t == last.tab
     IN  /\ tabs[t].activeRoom # Null
         /\ "endedAt" \notin DOMAIN tabs[t].activeRoom
         /\ Len(tabs[t].activeRoom.participants) = 2
         /\ tabs[t].activeRoom.participants[2].name = Bob
         /\ ~joinRoom(rev, Closure(t), storage,
                      toLowerCase(tabs[t].activeRoom.code),
                      <<" ", "b", "o", "b">>, nextId, now).ret

C9_JoinEffect ==
  [][(last'.op = "joinRoom" /\ last'.ret) =>
       LET t       == last'.tab
           updated == tabs'[t].activeRoom
           user    == tabs'[t].currentUser
           before  == tabs[t].savedRooms
           after   == tabs'[t].savedRooms
       IN  /\ updated # Null /\ user # Null
           /\ user.role = "participant"
           /\ \E target \in KnownRooms(t) :
                /\ target.id = updated.id
                /\ \A i \in DOMAIN target.participants : target.participants[i].id # user.id
                /\ updated.participants = Append(target.participants, user)
                /\ Len(updated.messages) = Len(target.messages) + 1
                /\ IsPrefix(target.messages, updated.messages)
                /\ IsSystem(updated.messages[Len(updated.messages)])
                /\ updated.messages[Len(updated.messages)].content
                     = user.displayChar \o <<" joined the room">>
                /\ updated.code = target.code /\ updated.name = target.name
                /\ updated.hostId = target.hostId
           /\ \E i \in DOMAIN before : before[i].id = updated.id
           /\ DOMAIN after = DOMAIN before
           /\ \A i \in DOMAIN before :
                after[i] = IF before[i].id = updated.id THEN updated ELSE before[i]]_vars

\* C9 witness: a joinRoom call has just returned true
C9_Witness ==
  /\ last.op = "joinRoom" /\ last.ret
  /\ tabs[last.tab].currentUser # Null
  /\ tabs[last.tab].currentUser.role = "participant"

\* C10: sendMessage returns true exactly when the content is not empty after
\* trimming, activeRoom and currentUser are set and activeRoom has no endedAt;
\* then the active room's messages grow by one non-system message carrying
\* currentUser's id and displayChar and the trimmed content, the participants
\* staying as they are; when it returns false nothing changes.
C10_SendMessage ==
  \A t \in {u \in Tabs : tabs[u].phase = "done"} :
    \A content \in Contents :
      LET s  == Closure(t)
          o  == sendMessage(rev, s, storage, content, nextId, now)
          ok == /\ Len(trim(content)) > 0
                /\ s.activeRoom # Null /\ s.currentUser # Null
                /\ "endedAt" \notin DOMAIN s.activeRoom
      IN  /\ o.ret = ok
          /\ o.ret =>
               LET m == o.activeRoom.messages[Len(o.activeRoom.messages)]
               IN  /\ o.activeRoom.messages = Append(s.activeRoom.messages, m)
                   /\ ~IsSystem(m)
                   /\ m.senderId = s.currentUser.id
                   /\ m.senderDisplayChar = s.currentUser.displayChar
                   /\ m.content = trim(content)
                   /\ o.activeRoom.participants = s.activeRoom.participants
                   /\ o.activeRoom.id = s.activeRoom.id
                   /\ o.currentUser = s.currentUser
          /\ ~o.ret => LeavesUnchanged(o, s)

\* C10 witness: a sendMessage call has just returned true and the message is
\* the last one of the caller's active room
C10_Witness ==
  /\ last.op = "sendMessage" /\ last.ret
  /\ LET room == tabs[last.tab].activeRoom
     IN  /\ room # Null
         /\ room.messages[Len(room.messages)].senderId = tabs[last.tab].currentUser.id
         /\ room.messages[Len(room.messages)].content = <<"h", "i">>

\* the tabs whose provider has finished mounting, so that handlers can run
ReadyTabs == {u \in Tabs : tabs[u].phase = "done"}

\* room e is room a ended at time ts: endedAt set, exactly one message more,
\* the closing system message, everything else as in a
IsEndedCopy(e, a, ts) ==
  /\ e.id = a.id /\ e.name = a.name /\ e.code = a.code
  /\ e.hostId = a.hostId /\ e.createdAt = a.createdAt
  /\ "endedAt" \in DOMAIN e /\ e.endedAt = ts
  /\ e.participants = a.participants
  /\ Len(e.messages) = Len(a.messages) + 1
  /\ IsPrefix(a.messages, e.messages)
  /\ IsSystem(e.messages[Len(e.messages)])
  /\ e.messages[Len(e.messages)].content = ClosedContent

\* C11: endRoom called with an active room and a current user of role 'host'
\* sets endedAt on the room, appends exactly one closing system message,
\* stores the ended room in the session's collection (in place of the entry
\* with its id if there is one, else at the end) and in the persisted
\* collection, and leaves activeRoom = null and currentUser = null.
C11_EndRoomEffect ==
  \A t \in ReadyTabs :
    LET s == Closure(t)
        o == endRoom(rev, s, storage, nextId, now)
    IN  ( s.activeRoom # Null /\ s.currentUser # Null
          /\ s.currentUser.role = "host" )
        => /\ o.ret
           /\ o.activeRoom = Null /\ o.currentUser = Null
           /\ \E e \in RoomsOf(o.savedRooms) :
                /\ IsEndedCopy(e, s.activeRoom, now)
                /\ o.savedRooms =
                     IF \E i \in DOMAIN s.savedRooms : s.savedRooms[i].id = e.id
                     THEN [i \in DOMAIN s.savedRooms |->
                             IF s.savedRooms[i].id = e.id THEN e ELSE s.savedRooms[i]]
                     ELSE s.savedRooms \o <<e>>
                /\ o.storage.kind = "array"
                /\ e \in RoomsOf(JSONparse(o.storage))
                /\ \A x \in RoomsOf(JSONparse(o.storage)) : x.id = e.id => x = e

\* C11 witness: a host's endRoom has just stored the ended room
C11_Witness ==
  /\ last.op = "endRoom" /\ last.ret
  /\ tabs[last.tab].activeRoom = Null /\ tabs[last.tab].currentUser = Null
  /\ \E e \in RoomsOf(StoredRooms) :
       /\ "endedAt" \in DOMAIN e /\ e.endedAt = now - 1
       /\ e.messages[Len(e.messages)].content = ClosedContent

\* C12: endRoom without active room, without current user or with a current
\* user who is not the host, and leaveRoom without active room or without
\* current user, change nothing (activeRoom, currentUser, savedRooms and the
\* persisted collection); so an endRoom right after an endRoom, and a
\* leaveRoom right after a leaveRoom, have no further effect.
C12_GuardedNoOp ==
  /\ \A t \in ReadyTabs :
       LET s == Closure(t)
           e == endRoom(rev, s, storage, nextId, now)
           l == leaveRoom(rev, s, storage, nextId, now)
       IN  /\ ( s.activeRoom = Null \/ s.currentUser = Null
                \/ s.currentUser.role # "host" )
              => ~e.ret /\ e.ids = 0 /\ LeavesUnchanged(e, s)
           /\ ( s.activeRoom = Null \/ s.currentUser = Null )
              => ~l.ret /\ l.ids = 0 /\ LeavesUnchanged(l, s)
  /\ (last.op = "endRoom" /\ last.ret) =>
       LET s == Closure(last.tab)
       IN  LeavesUnchanged(endRoom(rev, s, storage, nextId, now), s)
  /\ (last.op = "leaveRoom" /\ last.ret) =>
       LET s == Closure(last.tab)
       IN  LeavesUnchanged(leaveRoom(rev, s, storage, nextId, now), s)

\* C12 witness: a participant has just left, so the session has an active
\* room and no current user, and both endRoom and leaveRoom do nothing there
C12_Witness ==
  /\ last.op = "leaveRoom" /\ last.ret
  /\ LET s == Closure(last.tab)
     IN  /\ s.activeRoom # Null /\ s.currentUser = Null
         /\ ~endRoom(rev, s, storage, nextId, now).ret
         /\ ~leaveRoom(rev, s, storage, nextId, now).ret

\* C13: whenever the current user is the host, leaveRoom has exactly the
\* outcome of endRoom: the room ended with the closing system message as its
\* only new message (no 'left' message), the host still among the
\* participants, activeRoom and currentUser cleared.
C13_HostLeaveIsEnd ==
  \A t \in ReadyTabs :
    LET s == Closure(t)
        l == leaveRoom(rev, s, storage, nextId, now)
        e == endRoom(rev, s, storage, nextId, now)
    IN  ( s.currentUser # Null /\ s.currentUser.role = "host" )
        => /\ l = e
           /\ s.activeRoom # Null
                => /\ l.ret /\ l.activeRoom = Null /\ l.currentUser = Null
                   /\ \E x \in RoomsOf(l.savedRooms) :
                        /\ IsEndedCopy(x, s.activeRoom, now)
                        /\ \E i \in DOMAIN x.participants :
                             x.participants[i].id = s.currentUser.id
                   /\ l.storage.kind = "array"
                   /\ \E x \in RoomsOf(JSONparse(l.storage)) :
                        IsEndedCopy(x, s.activeRoom, now)

\* C13 witness: a leaveRoom call by the host has just ended the room
C13_Witness ==
  /\ last.op = "leaveRoom" /\ last.ret
  /\ tabs[last.tab].activeRoom = Null
  /\ \E e \in RoomsOf(tabs[last.tab].savedRooms) :
       "endedAt" \in DOMAIN e /\ e.endedAt = now - 1

\* C14: leaveRoom called by a participant (not the host) appends exactly one
\* system message '<displayChar> left the room', removes exactly the current
\* user from the participants, writes the updated room into the session's
\* collection and the persisted one, sets currentUser to null and keeps
\* activeRoom set to the updated room, which has no endedAt.
C14_ParticipantLeave ==
  \A t \in ReadyTabs :
    LET s == Closure(t)
        o == leaveRoom(rev, s, storage, nextId, now)
        a == s.activeRoom
        u == o.activeRoom
    IN  ( a # Null /\ s.currentUser # Null /\ s.currentUser.role # "host" )
        => /\ o.ret
           /\ o.currentUser = Null
           /\ u # Null
           /\ u.id = a.id /\ u.name = a.name /\ u.code = a.code
           /\ u.hostId = a.hostId
           /\ "endedAt" \notin DOMAIN u
           /\ Len(u.messages) = Len(a.messages) + 1
           /\ IsPrefix(a.messages, u.messages)
           /\ IsSystem(u.messages[Len(u.messages)])
           /\ u.messages[Len(u.messages)].content
                = s.currentUser.displayChar \o <<" left the room">>
           /\ Len(u.participants) = Len(a.participants) - 1
           /\ \A i \in DOMAIN u.participants : u.participants[i].id # s.currentUser.id
           /\ \E k \in DOMAIN a.participants :
                /\ a.participants[k] = s.currentUser
                /\ u.participants = SubSeq(a.participants, 1, k - 1)
                                      \o SubSeq(a.participants, k + 1, Len(a.participants))
           /\ u \in RoomsOf(o.savedRooms)
           /\ DOMAIN o.savedRooms = DOMAIN s.savedRooms
           /\ \A i \in DOMAIN s.savedRooms :
                o.savedRooms[i] = IF s.savedRooms[i].id = a.id THEN u ELSE s.savedRooms[i]
           /\ o.storage.kind = "array"
           /\ u \in RoomsOf(JSONparse(o.storage))

\* C14 witness: a participant has just left: the room stays active without
\* the participant, the last message tells who left
C14_Witness ==
  /\ last.op = "leaveRoom" /\ last.ret
  /\ tabs[last.tab].currentUser = Null
  /\ LET u == tabs[last.tab].activeRoom
     IN  /\ u # Null
         /\ Len(u.participants) = 1
         /\ u.messages[Len(u.messages)].content = <<"B">> \o <<" left the room">>

\* s starts with the string p
StartsWith(s, p) == Len(p) <= Len(s) /\ SubSeq(s, 1, Len(p)) = p

\* C15: getDisplayChar(name, participants) is 'A' for the empty name; else,
\* with L the upper case of the first character of name and k the number of
\* participants whose displayChar starts with L, it is L when k = 0 and L
\* followed by k + 1 in decimal when k > 0.
C15_DisplayChar ==
  last.op \in {"participants", "getDisplayChar"} =>
    \A name \in LabelNames :
      LET L == IF name = <<>> THEN <<>> ELSE toUpperCase(<<name[1]>>)
          k == Cardinality({i \in DOMAIN last.participants :
                              StartsWith(last.participants[i].displayChar, L)})
      IN  getDisplayChar(name, last.participants) =
            IF name = <<>> THEN <<"A">>
            ELSE IF k = 0 THEN L
            ELSE L \o NumberToString(k + 1)

AlphaNumeric ==
  {"0","1","2","3","4","5","6","7","8","9"}
    \cup {LowerToUpper[c] : c \in DOMAIN LowerToUpper}

\* C20: every code generateRoomCode returns is exactly 6 characters long and
\* made of digits and upper-case letters only, whatever Math.random returns.
C20_RoomCodeShape ==
  last.op = "generateRoomCode" =>
    /\ Len(last.ret) = 6
    /\ \A i \in DOMAIN last.ret : last.ret[i] \in AlphaNumeric

\* C16: for every well-formed array of rooms, getRoomsFromStorage right after
\* saveRoomsToStorage(rooms) returns an array equal to rooms: the same rooms
\* in the same order with the same fields, endedAt present or absent as saved.
C16_RoundTrip ==
  last.op = "saveRoomsToStorage" =>
    LET read == getRoomsFromStorage(storage).rooms
    IN  /\ read = last.rooms
        /\ \A i \in DOMAIN last.rooms :
             /\ DOMAIN read[i] = DOMAIN last.rooms[i]
             /\ \A j \in DOMAIN last.rooms[i].messages :
                  DOMAIN read[i].messages[j] = DOMAIN last.rooms[i].messages[j]

\* C16 witness: an ended room and a room that has not ended have been saved
\* over a text that was no array of rooms
C16_Witness ==
  /\ last.op = "saveRoomsToStorage"
  /\ last.item \in OtherTexts
  /\ Len(last.rooms) = 2
  /\ "endedAt" \in DOMAIN last.rooms[1]
  /\ "endedAt" \notin DOMAIN last.rooms[2]
  /\ storage.kind = "array"

\* C17: getRoomsFromStorage returns the empty array when the key is absent,
\* holds text that is not JSON, or holds JSON that is not an array; and in
\* the last two cases the key is absent afterwards.
C17_BadTextCleared ==
  last.op = "getRoomsFromStorage" =>
    /\ last.item.kind # "array" => last.rooms = <<>>
    /\ last.item \in OtherTexts => storage = NoItem

\* every outcome a handler call of tab t can have in the current state
Outcomes(t) ==
  LET s == Closure(t)
  IN  {createRoom(rev, s, storage, name, hostName, frac, nextId, now) :
         name \in RoomNames, hostName \in HostNames, frac \in Fractions}
        \cup {joinRoom(rev, s, storage, in[1], in[2], nextId, now) : in \in JoinInputs}
        \cup {sendMessage(rev, s, storage, content, nextId, now) : content \in Contents}
        \cup {endRoom(rev, s, storage, nextId, now),
              leaveRoom(rev, s, storage, nextId, now)}

\* C18: when the storage write fails (quota exceeded) during createRoom,
\* joinRoom, sendMessage, leaveRoom or endRoom, the store goes on: after the
\* call the provider is still mounted, and its activeRoom, currentUser and
\* savedRooms are those of the call's outcome, as if the write had succeeded.
C18_WriteFailureSilent ==
  [][(quotaExceeded /\ now' = now + 1) =>
       LET t == last'.tab
       IN  /\ tabs'[t].phase = "done"
           /\ \E o \in Outcomes(t) :
                /\ o.ret
                /\ tabs'[t].currentUser = o.currentUser
                /\ tabs'[t].activeRoom = o.activeRoom
                /\ tabs'[t].savedRooms = o.savedRooms]_vars

\* the ids of the messages of a room
MessageIds(room) == {room.messages[i].id : i \in DOMAIN room.messages}

C21_StoredEqualsMemory ==
  (OnlyOneStore /\ tabs[FirstTab].phase = "done") =>
    /\ last.op \in {"createRoom", "joinRoom", "sendMessage", "leaveRoom", "endRoom"}
         => StoredRooms = tabs[FirstTab].savedRooms
    /\ \A o \in Outcomes(FirstTab) :
         o.ret => /\ o.storage.kind = "array"
                  /\ JSONparse(o.storage) = o.savedRooms

\* C21 witness: a single store after a second createRoom: two rooms are in
\* memory, the first one with a participant's message, and both are stored
C21_Witness ==
  /\ OnlyOneStore
  /\ last.op = "createRoom" /\ last.ret
  /\ Len(tabs[FirstTab].savedRooms) = 2
  /\ Len(tabs[FirstTab].savedRooms[1].messages) = 3
  /\ StoredRooms = tabs[FirstTab].savedRooms

\* the ids of the rooms of which some copy (persisted, in a session's
\* collection, active) has endedAt
EndedIds == {r.id : r \in {x \in AllRooms : HasEnded(x)}}

\* every copy of a room there is when the item is st and the sessions are ts
CopiesIn(st, ts) ==
  (IF st.kind = "array" THEN RoomsOf(JSONparse(st)) ELSE {})
    \cup UNION {RoomsOf(ts[t].savedRooms) : t \in Tabs}
    \cup {ts[t].activeRoom : t \in {u \in Tabs : ts[u].activeRoom # Null}}

\* C22: only the host can end a room: every step after which a room has
\* endedAt that had it in no copy before is an endRoom or leaveRoom call of a
\* session whose active room it was and whose currentUser had role 'host' and
\* the id that is the room's hostId.
C22_OnlyHostEnds ==
  [][LET before == EndedIds
     IN  \A r \in {x \in CopiesIn(storage', tabs') : HasEnded(x) /\ x.id \notin before} :
           /\ last'.op \in {"endRoom", "leaveRoom"} /\ last'.ret
           /\ last'.tab \in Tabs
           /\ LET s == Closure(last'.tab)
              IN  /\ s.currentUser # Null /\ s.activeRoom # Null
                  /\ s.currentUser.role = "host"
                  /\ s.currentUser.id = r.hostId
                  /\ s.activeRoom.id = r.id]_vars

\* C22 witness: the host has just ended a room in which another session has
\* a participant as its current user, whose own endRoom does nothing
C22_Witness ==
  /\ last.op = "endRoom" /\ last.ret
  /\ \E u \in ReadyTabs \ {last.tab} :
       /\ tabs[u].currentUser # Null /\ tabs[u].activeRoom # Null
       /\ tabs[u].currentUser.role = "participant"
       /\ tabs[u].activeRoom.id \in EndedIds
       /\ "endedAt" \notin DOMAIN tabs[u].activeRoom
       /\ ~endRoom(rev, Closure(u), storage, nextId, now).ret

OpenWithCode(arr, code) ==
  {i \in DOMAIN arr : arr[i].code = code /\ "endedAt" \notin DOMAIN arr[i]}

\* C24: joinRoom compares the trimmed, upper-cased code.  When the session's
\* activeRoom has that code and no endedAt, the room joined is activeRoom,
\* whatever other rooms have the code; else it is the first room of the
\* collection, in its order, with that code and no endedAt (ended rooms with
\* the code before it are passed over); when there is none, joinRoom returns
\* false.  (With a target, it returns true unless the name is taken.)  The
\* collection searched is the session's savedRooms in ChatContext.tsx and the
\* array read from storage in App.tsx.
C24_JoinTarget ==
  \A t \in ReadyTabs :
    \A in \in {x \in JoinInputs : Len(x[1]) > 0 /\ Len(trim(x[2])) > 0} :
      LET s      == Closure(t)
          code   == toUpperCase(trim(in[1]))
          a      == s.activeRoom
          rooms  == IF rev = "app" THEN StoredRooms ELSE s.savedRooms
          open   == OpenWithCode(rooms, code)
          first  == CHOOSE i \in open : \A j \in open : i <= j
          active == a # Null /\ a.code = code /\ "endedAt" \notin DOMAIN a
          o      == joinRoom(rev, s, storage, in[1], in[2], nextId, now)
      IN  IF ~active /\ open = {}
          THEN ~o.ret /\ o.activeRoom = a /\ o.currentUser = s.currentUser
          ELSE LET target == IF active THEN a ELSE rooms[first]
                   taken  == \E i \in DOMAIN target.participants :
                               toLowerCase(target.participants[i].name)
                                 = toLowerCase(trim(in[2]))
               IN  /\ o.ret = ~taken
                   /\ o.ret =>
                        /\ o.activeRoom.id = target.id
                        /\ o.activeRoom.participants
                             = Append(target.participants, o.currentUser)
                        /\ IsPrefix(target.messages, o.activeRoom.messages)

\* C24 witness: a session without active room whose collection holds an
\* ended room and, after it, an open room with the same code: joinRoom with
\* the code in lower case after a blank joins the second one
C24_Witness ==
  \E t \in ReadyTabs :
    LET s == Closure(t)
        o == joinRoom(rev, s, storage, <<" ","a","b","c","1","2","3">>, Bob, nextId, now)
    IN  /\ s.activeRoom = Null
        /\ Len(s.savedRooms) = 2
        /\ s.savedRooms[1].code = s.savedRooms[2].code
        /\ "endedAt" \in DOMAIN s.savedRooms[1]
        /\ "endedAt" \notin DOMAIN s.savedRooms[2]
        /\ o.ret
        /\ o.activeRoom.id = s.savedRooms[2].id

\* C25: after every joinRoom call that returns true, also for a userName
\* with leading blanks, the new user's displayChar starts with the upper case
\* of the first character of the name stored for the user (the trimmed
\* userName).
C25_LabelFromStoredName ==
  (last.op = "joinRoom" /\ last.ret) =>
    LET user == tabs[last.tab].currentUser
    IN  /\ user # Null
        /\ StartsWith(user.displayChar, toUpperCase(charAt(user.name, 0)))

\* C26: after a participant has confirmed 'Leave Room' the presentation
\* layer shows the home view with the join and create forms; no session is in
\* a state where activeRoom is set, currentUser is null and neither the chat
\* view nor the forms are rendered.
C26_LeaveReturnsHome ==
  /\ (last.op = "leaveRoom" /\ last.ret) => ChatApp(Closure(last.tab)) = "home"
  /\ \A t \in ReadyTabs :
       (tabs[t].activeRoom # Null /\ tabs[t].currentUser = Null)
         => ChatApp(Closure(t)) \in {"chat", "home"}

\* C27: in every reachable state of a store driven by createRoom, joinRoom,
\* sendMessage, leaveRoom and endRoom, a session with a currentUser has an
\* activeRoom, and a participant of that room has the currentUser's id, role
\* and displayChar.
C27_UserInActiveRoom ==
  \A t \in Tabs :
    tabs[t].currentUser # Null =>
      /\ tabs[t].activeRoom # Null
      /\ \E i \in DOMAIN tabs[t].activeRoom.participants :
           LET p == tabs[t].activeRoom.participants[i]
           IN  /\ p.id = tabs[t].currentUser.id
               /\ p.role = tabs[t].currentUser.role
               /\ p.displayChar = tabs[t].currentUser.displayChar

\* C27 witness: a single store whose session, host of its room before, has
\* joined the room under another name and sent a message as that participant
C27_Witness ==
  /\ OnlyOneStore
  /\ last.op = "sendMessage" /\ last.ret
  /\ LET user == tabs[FirstTab].currentUser
         room == tabs[FirstTab].activeRoom
     IN  /\ user # Null /\ room # Null
         /\ user.role = "participant"
         /\ room.participants[Len(room.participants)] = user
         /\ room.messages[Len(room.messages)].senderId = user.id

\* C28: in every reachable state a session's activeRoom, when set, has no
\* endedAt: no sequence of createRoom, joinRoom, sendMessage, leaveRoom and
\* endRoom leaves an ended room as the active room.
C28_ActiveRoomOpen ==
  \A t \in Tabs :
    tabs[t].activeRoom # Null =>
      /\ "endedAt" \notin DOMAIN tabs[t].activeRoom
      /\ ~HasEnded(tabs[t].activeRoom)

\* C28 witness: a single store that has ended its first room, created a
\* second one with the same code and joined it: the ended room is in the
\* collection, the active room is the open one
C28_Witness ==
  /\ OnlyOneStore
  /\ last.op = "joinRoom" /\ last.ret
  /\ LET saved == tabs[FirstTab].savedRooms
         room  == tabs[FirstTab].activeRoom
     IN  /\ Len(saved) = 2
         /\ HasEnded(saved[1])
         /\ room # Null
         /\ room.id = saved[2].id
         /\ room.code = saved[1].code

\* C29: in a room from which no participant ever left, after any sequence
\* of successful joinRoom calls the displayChar values of all participants,
\* host included, are pairwise distinct.
C29_LabelsDistinct ==
  \A r \in AllRooms :
    \A i, j \in DOMAIN r.participants :
      i # j => r.participants[i].displayChar # r.participants[j].displayChar

\* the collection a reader that tolerates a missing item sees in the text st
CollectionIn(st) == IF st.kind = "array" THEN JSONparse(st) ELSE <<>>

\* C30: mounting a store instance never changes the persisted collection:
\* after each step of a mount (the first commit with its effects, the
\* re-render the load effect asked for) the collection stored under
\* 'savedRooms' is the one that was stored before the step, so another tab
\* never sees a different one.
C30_MountKeepsStorage ==
  [][last'.op \in {"mount", "rerender"} =>
       CollectionIn(storage') = CollectionIn(storage)]_vars

====
